---- MODULE Spec2Model ----
(***************************************************************************)
(* A model of the LIT framework (src/lit-framework.js) and of the Xenial   *)
(* Fusion Engine (src/xenial-fusion.js).                                   *)
(*                                                                         *)
(* Numbers.  The scores of the program are JavaScript doubles in the range *)
(* 0..1.  They are modelled in fixed point: the integer n stands for the   *)
(* score n / Scale.  Date.now() is an integer number of milliseconds.      *)
(* A value that the program can compute as NaN or leave undefined is a     *)
(* record [k, v] with k one of "num", "NaN", "undefined"; the arithmetic   *)
(* and the comparisons on such records follow IEEE 754 / ECMAScript:       *)
(* every sum or product with NaN or undefined is NaN and every comparison  *)
(* with NaN is false.                                                      *)
(***************************************************************************)
EXTENDS Integers, Sequences, FiniteSets, TLC

(***************************************************************************)
(* Bounds of the model.                                                    *)
(***************************************************************************)
\* the number of LIT objects constructed, by compose() and by fuse()
MaxLITs == 3
\* the number of weeks the clock advances
MaxWeeks == 1
\* the number of interact / transform / relate / network / capability calls
MaxCalls == 2
\* the number of fusions in a chain of fusions
MaxFusions == 2
\* the number of LITs composed before fusions are suggested
MaxComposed == 4
\* the number of steps of a process LIT
MaxSteps == 3
\* the number of capability calls on the process LIT
MaxRuns == 6

(***************************************************************************)
(* Fixed-point arithmetic.                                                 *)
(***************************************************************************)
\* the integer that stands for the score 1.0
Scale == 1000

RECURSIVE FloorLog2(_)
FloorLog2(x) == IF x < 2 THEN 0 ELSE 1 + FloorLog2(x \div 2)

RECURSIVE Pow2(_)
Pow2(k) == IF k <= 0 THEN 1 ELSE 2 * Pow2(k - 1)

\* a * b / Scale without leaving 32 bits when a is large
MulS(a, b) == (a \div Scale) * b + ((a % Scale) * b) \div Scale

\* Math.log(x) for an integer x >= 1, in units of 1/Scale:
\* x = m * 2^k with 1 <= m < 2, ln x = k ln 2 + 2 atanh((m - 1)/(m + 1))
Ln(x) ==
    LET k  == FloorLog2(x)
        m  == IF k <= 10 THEN x * Pow2(10 - k) ELSE x \div Pow2(k - 10)
        z  == ((m - 1024) * 10000) \div (m + 1024)
        z2 == (z * z) \div 10000
        z3 == (z * z2) \div 10000
        z5 == (z3 * z2) \div 10000
    IN  (k * 693147) \div 1000 + (2 * (z + z3 \div 3 + z5 \div 5)) \div 10

\* Math.log2(x) for an integer x >= 1, in units of 1/Scale
Log2(x) == (Ln(x) * 1000) \div 693

\* Math.exp(-r) for r >= 0 given in units of 1/Scale, in units of 1/Scale:
\* r = q ln 2 + f with 0 <= f < ln 2, exp(-r) = exp(-f) / 2^q
ExpNeg(r) ==
    LET q  == r \div 693
        f  == r % 693
        f2 == (f * f) \div 1000
        f3 == (f2 * f) \div 1000
        f4 == (f3 * f) \div 1000
        f5 == (f4 * f) \div 1000
        e  == 1000 - f + f2 \div 2 - f3 \div 6 + f4 \div 24 - f5 \div 120
    IN  IF q > 30 THEN 0 ELSE e \div Pow2(q)

Min(a, b) == IF a < b THEN a ELSE b
Max(a, b) == IF a > b THEN a ELSE b
Abs(a) == IF a < 0 THEN 0 - a ELSE a

RECURSIVE SumSeq(_)
SumSeq(s) == IF s = <<>> THEN 0 ELSE Head(s) + SumSeq(Tail(s))


(***************************************************************************)
(* JavaScript numbers that can be NaN or undefined.                        *)
(***************************************************************************)
Num(n) == [k |-> "num", v |-> n]
NaN == [k |-> "NaN", v |-> 0]
Undefined == [k |-> "undefined", v |-> 0]
IsNum(x) == x.k = "num"

\* x + y, x * y (y a score), Math.min(1, x), Math.max(0, x)
JsAdd(x, y) == IF IsNum(x) /\ IsNum(y) THEN Num(x.v + y.v) ELSE NaN
JsMul(x, y) == IF IsNum(x) /\ IsNum(y) THEN Num(MulS(x.v, y.v)) ELSE NaN
JsMin1(x) == IF IsNum(x) THEN Num(Min(Scale, x.v)) ELSE NaN
JsMax0(x) == IF IsNum(x) THEN Num(Max(0, x.v)) ELSE NaN
\* x < n, x > n, x >= n: false when x is NaN
JsLt(x, n) == IsNum(x) /\ x.v < n
JsGt(x, n) == IsNum(x) /\ x.v > n
JsGe(x, n) == IsNum(x) /\ x.v >= n

RECURSIVE JsSum(_)
JsSum(s) == IF s = <<>> THEN Num(0) ELSE JsAdd(Head(s), JsSum(Tail(s)))

(***************************************************************************)
(* Content.  A content value is described by what the program reads of it: *)
(*   kind       "string", "object" or "other" (typeof)                     *)
(*   keys       Object.keys(content).length (the words of a string)        *)
(*   defined    keys whose value is neither null nor undefined (the        *)
(*              distinct words of a string)                                *)
(*   hasMetadata, hasId, hasRelations, hasValue, persistent                *)
(*              the properties measureResonance tests                      *)
(*   chars      the characters of JSON.stringify(content), counted in      *)
(*              eight classes (character code modulo 8)                 *)
(*   steps, currentStep, completedSteps, outputs                           *)
(*              the fields the example handlers and the fusion logic use   *)
(***************************************************************************)
Classes == 1..8

VecAdd(a, b) == [i \in Classes |-> a[i] + b[i]]

RECURSIVE VecSum(_)
VecSum(s) == IF s = <<>> THEN [i \in Classes |-> 0] ELSE VecAdd(Head(s), VecSum(Tail(s)))

\* JSON.stringify(content).length
JsonLength(content) == SumSeq(content.chars)

\* new LIT() without content: {}
EmptyContent ==
    [kind |-> "object", keys |-> 0, defined |-> 0,
     hasMetadata |-> FALSE, hasId |-> FALSE, hasRelations |-> FALSE,
     hasValue |-> FALSE, persistent |-> FALSE,
     chars |-> <<0, 0, 0, 1, 0, 1, 0, 0>>,
     hasKnowledge |-> FALSE, steps |-> 0, currentStep |-> 0, completedSteps |-> 0,
     outputs |-> 0]

\* createKnowledgeLIT('XQE Principles', 'The XQE operates on coherence, not scarcity')
KnowledgeContent ==
    [EmptyContent EXCEPT !.keys = 6, !.defined = 6, !.hasId = TRUE, !.persistent = TRUE,
                         !.hasKnowledge = TRUE,
                         !.chars = <<21, 18, 31, 21, 24, 25, 13, 13>>]

\* createProcessLIT('Demo', ['Compose', 'Validate'])
ProcessContent ==
    [EmptyContent EXCEPT !.keys = 7, !.defined = 7, !.hasId = TRUE, !.persistent = TRUE,
                         !.hasMetadata = TRUE, !.steps = 2,
                         !.chars = <<10, 13, 44, 21, 34, 31, 4, 7>>]

\* createCreativeLIT('visual art', 'quantum-organic', {...})
CreativeContent ==
    [EmptyContent EXCEPT !.keys = 7, !.defined = 7, !.hasId = TRUE, !.persistent = TRUE,
                         !.hasValue = TRUE,
                         !.chars = <<10, 28, 49, 18, 28, 39, 14, 8>>]

(***************************************************************************)
(* CoherenceField.                                                         *)
(***************************************************************************)
measureConsistency(content) ==
    IF content.kind = "string"
    THEN Min(Scale, (content.defined * Scale) \div content.keys)
    ELSE IF content.kind = "object"
         THEN (content.defined * Scale) \div Max(1, content.keys)
         ELSE 500

Flag(b) == IF b THEN 200 ELSE 0

measureResonance(content) ==
    Flag(content.hasMetadata) + Flag(content.hasId) + Flag(content.hasRelations)
        + Flag(content.hasValue) + Flag(content.persistent)

\* -sum p log2 p = log2 total - (sum count log2 count) / total
measureEntropy(content) ==
    LET total == JsonLength(content)
        part  == [i \in Classes |->
                    IF content.chars[i] = 0 THEN 0
                    ELSE content.chars[i] * Log2(content.chars[i])]
        bits  == Max(0, Log2(total) - SumSeq(part) \div total)
    IN  Min(Scale, bits \div 8)

\* new CoherenceField(content): analyze()
CoherenceField(content) ==
    [consistency |-> measureConsistency(content),
     resonance   |-> measureResonance(content),
     entropy     |-> measureEntropy(content)]

coherenceScore(cf) ==
    LET optimalEntropy == Scale - Abs(600 - cf.entropy)
    IN  (cf.consistency * 400 + cf.resonance * 400 + optimalEntropy * 200) \div Scale


(***************************************************************************)
(* AgentSystem.  A capability is [name, uses, handler]; handler names the  *)
(* function.  A capability given to the LIT constructor is the object the  *)
(* caller wrote, {name, handler}: its uses property is undefined.          *)
(***************************************************************************)
Cap(name) == [name |-> name, uses |-> Undefined, handler |-> name]

UsesOf(caps) == [i \in 1..Len(caps) |-> caps[i].uses]

\* calculateAgency(): the three derived fields from the capability list
calculateAgency(caps) ==
    LET totalUses == JsSum(UsesOf(caps))
        IsActive(c) == JsGt(c.uses, 0)
    IN  [autonomy       |-> Min(Scale, (Len(caps) * Scale) \div 10),
         intentionality |-> IF IsNum(totalUses)
                            THEN Num(Min(Scale, Ln(1 + totalUses.v) \div 5))
                            ELSE NaN,
         effectivity    |-> (Len(SelectSeq(caps, IsActive)) * Scale) \div Max(1, Len(caps))]

\* get agencyScore
agencyScore(lit) ==
    LET s == JsAdd(JsAdd(Num(lit.autonomy), lit.intentionality), Num(lit.effectivity))
    IN  IF IsNum(s) THEN Num(s.v \div 3) ELSE NaN

\* a find() that settles for the first capability when none has the name
FindCapabilityOrFirst(caps, name, i) ==
    IF \E j \in i..Len(caps) : caps[j].name = name
    THEN CHOOSE j \in i..Len(caps) :
            caps[j].name = name /\ \A k \in i..(j - 1) : caps[k].name # name
    ELSE IF Len(caps) > 0 THEN 1 ELSE 0

\* capabilities.find(c => c.name === name): the index of the first match, 0 if none
RECURSIVE FindCapability(_, _, _)
FindCapability(caps, name, i) ==
    IF i > Len(caps) THEN 0
    ELSE IF caps[i].name = name THEN i
    ELSE FindCapability(caps, name, i + 1)

\* capability.uses++
Increment(uses) == IF IsNum(uses) THEN Num(uses.v + 1) ELSE NaN

(***************************************************************************)
(* TemporalSignature.                                                      *)
(***************************************************************************)
\* 24 hours in ms
baseDecay == 86400000

\* updatePersistence() at clock t; 0 * Infinity is NaN when no time has passed
updatePersistence(lit, t) ==
    LET age == t - lit.createdAt
        interactionDensity == (Len(lit.interactions) * Scale * 1000) \div age
    IN  IF age = 0 THEN NaN
        ELSE Num(MulS(Scale + interactionDensity, Ln(1 + age)))

Impacts(lit) == [i \in 1..Len(lit.interactions) |-> lit.interactions[i].impact]

\* get halfLife, in seconds
halfLife(lit) ==
    LET interactionBonus == SumSeq(Impacts(lit))
    IN  baseDecay \div 1000 + ((baseDecay \div 100000) * interactionBonus) \div 10

\* get temporalValue at clock t
temporalValue(lit, t) ==
    LET age == t - lit.createdAt
        decay == ExpNeg(age \div halfLife(lit))
    IN  JsMul(lit.persistence, Num(decay))

\* record(interaction) at clock t
record(lit, type, impact, t) ==
    LET pushed == [lit EXCEPT !.interactions = Append(@, [type |-> type, impact |-> impact])]
    IN  [pushed EXCEPT !.persistence = updatePersistence(pushed, t)]

(***************************************************************************)
(* LIT.                                                                    *)
(***************************************************************************)
\* calculateValue() at clock t
calculateValue(lit, t) ==
    LET coherence == coherenceScore(lit.coherenceField)
        agency == agencyScore(lit)
        temporal == temporalValue(lit, t)
        baseValue == JsAdd(JsAdd(Num((coherence * 400) \div Scale),
                                 JsMul(agency, Num(350))),
                           JsMul(temporal, Num(250)))
        networkBonus == Ln(1 + Len(lit.relations)) \div 5
    IN  JsMin1(JsMul(baseValue, Num(Scale + networkBonus)))

\* the chain of comparisons of updateState() on a value
StateOf(value) ==
    IF JsLt(value, 200) THEN "decaying"
    ELSE IF JsLt(value, 400) THEN "nascent"
    ELSE IF JsLt(value, 600) THEN "stable"
    ELSE IF JsLt(value, 800) THEN "resonant"
    ELSE "transcendent"

\* updateState() at clock t
updateState(lit, t) == [lit EXCEPT !.state = StateOf(calculateValue(lit, t))]

NoMetadata == [fusionPattern |-> "", sourceIDs |-> <<>>]

\* what compose() is called with; id = 0 stands for a config without id
Config(type, content, capabilities) ==
    [id |-> 0, type |-> type, content |-> content, metadata |-> NoMetadata,
     capabilities |-> capabilities, relations |-> <<>>]

\* new LIT(config) at clock t; fresh is the id generateId() returns
NewLIT(config, fresh, t) ==
    updateState(
        [id |-> IF config.id # 0 THEN config.id ELSE fresh,
         type |-> config.type,
         content |-> config.content,
         metadata |-> config.metadata,
         coherenceField |-> CoherenceField(config.content),
         caps |-> config.capabilities,
         autonomy |-> 0, intentionality |-> Num(0), effectivity |-> 0,
         createdAt |-> t, interactions |-> <<>>, persistence |-> Num(0),
         relations |-> config.relations,
         state |-> "nascent"], t)

\* interact(type, data) at clock t; impact = 0 stands for data without impact
interact(lit, type, impact, t) ==
    updateState(record(lit, type, IF impact = 0 THEN 100 ELSE impact, t), t)

\* transform(transformFn) at clock t, newContent = transformFn(content)
transform(lit, newContent, t) ==
    updateState(record([lit EXCEPT !.content = newContent,
                                   !.coherenceField = CoherenceField(newContent)],
                       "transform", 500, t), t)

\* relate(otherLit, relationType) at clock t
relate(lit, otherId, relationType, t) ==
    record([lit EXCEPT !.relations = Append(@, [targetId |-> otherId, type |-> relationType])],
           "relate", 300, t)


(***************************************************************************)
(* The capability handlers of src/lit-examples.js and of the fusion        *)
(* patterns.  A handler that reads context.lit throws a TypeError when the *)
(* context has no lit; the others ignore the context.                      *)
(***************************************************************************)
ReadsLit(handler) == handler \in {"execute", "reset", "generate", "evolve", "generate_emergent"}

\* the characters JSON.stringify gains by one entry of content.outputs
OutputChars == <<48, 22, 34, 13, 22, 27, 11, 12>>

\* an execute handler that does not look at the number of steps
HandlerEffectUnbounded(handler, content) ==
    CASE handler = "execute" ->
            [content EXCEPT !.currentStep = @ + 1, !.completedSteps = @ + 1]
      [] handler = "reset" ->
            [content EXCEPT !.currentStep = 0, !.completedSteps = 0]
      [] OTHER -> content

\* the content of context.lit after the handler has run
HandlerEffect(handler, content) ==
    CASE handler = "execute" ->
            IF content.currentStep >= content.steps THEN content
            ELSE [content EXCEPT !.currentStep = @ + 1, !.completedSteps = @ + 1]
      [] handler = "reset" ->
            [content EXCEPT !.currentStep = 0, !.completedSteps = 0]
      [] handler \in {"generate", "generate_emergent"} ->
            [content EXCEPT !.outputs = @ + 1, !.chars = VecAdd(@, OutputChars)]
      [] OTHER -> content

(***************************************************************************)
(* The configs the examples compose (src/lit-examples.js) and the empty    *)
(* config.                                                                 *)
(***************************************************************************)
ConfigNames == {"knowledge", "process", "creative", "generic"}

ExampleConfig(name) ==
    CASE name = "knowledge" ->
            Config("knowledge", KnowledgeContent, <<Cap("query"), Cap("expand")>>)
      [] name = "process" ->
            Config("process", ProcessContent, <<Cap("execute"), Cap("reset")>>)
      [] name = "creative" ->
            Config("creative", CreativeContent, <<Cap("generate"), Cap("evolve")>>)
      [] OTHER -> Config("generic", EmptyContent, <<>>)

\* a transformFn that keeps one key and sets it to null
SparseContent ==
    [EmptyContent EXCEPT !.keys = 1, !.chars = <<0, 0, 3, 1, 3, 3, 2, 1>>]

TransformFn(name, content) ==
    IF name = "sparse" THEN SparseContent ELSE KnowledgeContent

TransformNames == {"sparse", "knowledge"}


(***************************************************************************)
(* FusionPattern and EmergenceMetrics.                                     *)
(***************************************************************************)
\* this.resonanceThreshold = 0.3
resonanceThreshold == 300

\* new FusionPattern(name, description, fusionLogic)
FusionPattern(name, logic) ==
    [name |-> name, fusionLogic |-> logic,
     resonanceThreshold |-> resonanceThreshold, usageCount |-> 0]

Coherences(lits) == [i \in 1..Len(lits) |-> coherenceScore(lits[i].coherenceField)]

\* a canFuse() that wants every LIT, not their average, at the threshold
canFuseEach(pattern, lits) ==
    /\ Len(lits) >= 2
    /\ \A i \in 1..Len(lits) : Coherences(lits)[i] >= pattern.resonanceThreshold

\* canFuse(lits): avgCoherence >= resonanceThreshold, compared without rounding
canFuse(pattern, lits) ==
    /\ Len(lits) >= 2
    /\ SumSeq(Coherences(lits)) >= pattern.resonanceThreshold * Len(lits)

\* calculateVariance(values)
calculateVariance(values) ==
    LET mean == SumSeq(values) \div Len(values)
        squaredDiffs == [i \in 1..Len(values) |->
                            ((values[i] - mean) * (values[i] - mean)) \div Scale]
    IN  SumSeq(squaredDiffs) \div Len(values)

Values(lits, t) == [i \in 1..Len(lits) |-> calculateValue(lits[i], t)]

JsonLengths(lits) == [i \in 1..Len(lits) |-> JsonLength(lits[i].content)]

\* JS division of two numbers with a positive divisor
JsDiv(x, y) == IF IsNum(x) /\ IsNum(y) THEN Num((x.v * Scale) \div y.v) ELSE NaN

\* EmergenceMetrics.calculate(inputLITs, fusedLIT) at clock t
EmergenceMetrics(inputLITs, fusedLIT, t) ==
    LET n == Len(inputLITs)
        inputSum == SumSeq(JsonLengths(inputLITs))
        outputComplexity == JsonLength(fusedLIT.content)
        valueSum == JsSum(Values(inputLITs, t))
        inputValue == IF IsNum(valueSum) THEN Num(valueSum.v \div n) ELSE NaN
        outputValue == calculateValue(fusedLIT, t)
        floor == IF IsNum(inputValue) THEN Num(Max(100, inputValue.v)) ELSE NaN
        gain == IF IsNum(outputValue) /\ IsNum(inputValue)
                THEN Num(outputValue.v - inputValue.v) ELSE NaN
    IN  [novelty   |-> Min(Scale, (Abs(outputComplexity * n - inputSum) * Scale) \div inputSum),
         synergy   |-> JsMax0(JsDiv(gain, floor)),
         stability |-> coherenceScore(fusedLIT.coherenceField),
         resonance |-> Scale - Min(Scale, calculateVariance(Coherences(inputLITs)))]

\* get emergenceScore
emergenceScore(m) ==
    JsAdd(Num((m.novelty * 250 + m.stability * 250 + m.resonance * 150) \div Scale),
          JsMul(m.synergy, Num(350)))

(***************************************************************************)
(* The fusion logic of the four default patterns: the config each one      *)
(* composes.  The text of a fused content is the literal text of the       *)
(* pattern's object plus text taken from the sources; the part taken from  *)
(* the sources is counted as the sources' own characters.                  *)
(***************************************************************************)
DefaultPatterns ==
    << FusionPattern("Harmonic Synthesis", "harmonic"),
       FusionPattern("Processual Integration", "processual"),
       FusionPattern("Creative Amplification", "creative"),
       FusionPattern("Xenial Transcendence", "xenial") >>

Ids(lits) == [i \in 1..Len(lits) |-> lits[i].id]

FusedFrom(lits) == [i \in 1..Len(lits) |-> [targetId |-> lits[i].id, type |-> "fused-from"]]

SourceChars(lits) == VecSum([i \in 1..Len(lits) |-> lits[i].content.chars])

IsProcess(lit) == lit.type = "process" \/ lit.content.steps > 0

HarmonicSynthesis(lits) ==
    [id |-> 0, type |-> "synthesis",
     content |-> [EmptyContent EXCEPT !.keys = 7, !.defined = 7, !.hasId = TRUE,
                      !.persistent = TRUE, !.hasValue = TRUE, !.hasMetadata = TRUE,
                      !.chars = VecAdd(<<30, 22, 47, 24, 27, 31, 13, 10>>, SourceChars(lits))],
     metadata |-> [fusionPattern |-> "Harmonic Synthesis", sourceIDs |-> Ids(lits)],
     capabilities |-> <<>>,
     relations |-> FusedFrom(lits)]

ProcessualIntegration(lits) ==
    LET processes == SelectSeq(lits, IsProcess)
        steps == IF Len(processes) > 0 /\ processes[1].content.steps > 0
                 THEN processes[1].content.steps ELSE 3
    IN  [id |-> 0, type |-> "informed-process",
         content |-> [EmptyContent EXCEPT !.keys = 7, !.defined = 7, !.hasId = TRUE,
                          !.persistent = TRUE, !.steps = steps,
                          !.chars = VecAdd(<<21, 12, 37, 21, 23, 30, 13, 13>>, SourceChars(lits))],
         metadata |-> [fusionPattern |-> "Processual Integration", sourceIDs |-> Ids(lits)],
         capabilities |-> <<>>,
         relations |-> <<>>]

CreativeAmplification(lits) ==
    [id |-> 0, type |-> "emergent-creative",
     content |-> [EmptyContent EXCEPT !.keys = 9, !.defined = 9, !.hasId = TRUE,
                      !.persistent = TRUE, !.hasValue = TRUE,
                      !.chars = VecAdd(<<27, 27, 57, 20, 34, 46, 20, 16>>, SourceChars(lits))],
     metadata |-> [fusionPattern |-> "Creative Amplification", sourceIDs |-> Ids(lits)],
     capabilities |-> <<Cap("generate_emergent")>>,
     relations |-> <<>>]

XenialTranscendence(lits) ==
    [id |-> 0, type |-> "xenial-transcendence",
     content |-> [EmptyContent EXCEPT !.keys = 10, !.defined = 10, !.hasId = TRUE,
                      !.persistent = TRUE, !.hasValue = TRUE, !.hasMetadata = TRUE,
                      !.chars = VecAdd(<<33, 31, 63, 37, 57, 59, 37, 16>>, SourceChars(lits))],
     metadata |-> [fusionPattern |-> "Xenial Transcendence", sourceIDs |-> Ids(lits)],
     capabilities |-> <<Cap("resonate")>>,
     relations |-> <<>>]

\* a pattern registered by a caller: composes a LIT with no content
CustomFusion(lits) ==
    [id |-> 0, type |-> "custom", content |-> EmptyContent,
     metadata |-> [fusionPattern |-> "Custom", sourceIDs |-> Ids(lits)],
     capabilities |-> <<>>, relations |-> <<>>]

\* pattern.fusionLogic(lits, engine): the config it passes to compose
fusionLogic(pattern, lits) ==
    CASE pattern.fusionLogic = "harmonic" -> HarmonicSynthesis(lits)
      [] pattern.fusionLogic = "processual" -> ProcessualIntegration(lits)
      [] pattern.fusionLogic = "creative" -> CreativeAmplification(lits)
      [] pattern.fusionLogic = "xenial" -> XenialTranscendence(lits)
      [] OTHER -> CustomFusion(lits)


(***************************************************************************)
(* State.                                                                  *)
(*   now        Date.now(), in ms                                          *)
(*   heap       the LIT objects constructed so far; a LIT is referred to   *)
(*              by its index                                               *)
(*   registry   LITComposer.registry: a Map from id to LIT, as the         *)
(*              sequence of its entries [id, ref] in insertion order       *)
(*   patterns   XenialFusionEngine.fusionPatterns, a Map by name, as the   *)
(*              sequence of its values in insertion order                  *)
(*   history    XenialFusionEngine.fusionHistory                           *)
(*   last       the last step: its name, the error it threw ("none" if it  *)
(*              returned), the LIT it returned or acted on, the number of  *)
(*              capability handlers it called, the arguments of a fuse(),  *)
(*              the name given to an executeCapability(), the list a       *)
(*              suggestFusions() returned and what a handler of the        *)
(*              process LIT returned                                       *)
(*   calls      the number of calls made on the LITs, to bound the model   *)
(***************************************************************************)
VARIABLES now, heap, registry, patterns, history, last, calls

vars == <<now, heap, registry, patterns, history, last, calls>>

Refs == 1..Len(heap)

Result(op, err, ref, handled) ==
    [op |-> op, err |-> err, ref |-> ref, handled |-> handled,
     litIDs |-> <<>>, patternName |-> "", name |-> "", suggestions |-> <<>>,
     result |-> [status |-> "", step |-> 0]]

FuseResult(err, ref, litIDs, patternName) ==
    [Result("fuse", err, ref, 0) EXCEPT !.litIDs = litIDs, !.patternName = patternName]

\* new LITComposer(); new XenialFusionEngine(composer)
Init ==
    /\ now = 0
    /\ heap = <<>>
    /\ registry = <<>>
    /\ patterns = DefaultPatterns
    /\ history = <<>>
    /\ last = Result("new", "none", 0, 0)
    /\ calls = 0

\* a week, in ms
Week == 7 * baseDecay

\* a week passes
Tick ==
    /\ now < MaxWeeks * Week
    /\ now' = now + Week
    /\ last' = Result("tick", "none", 0, 0)
    /\ UNCHANGED <<heap, registry, patterns, history, calls>>

(***************************************************************************)
(* LITComposer.                                                            *)
(***************************************************************************)
\* the position of key in a Map's entries, 0 if it has none
RECURSIVE IndexOf(_, _, _)
IndexOf(entries, key, i) ==
    IF i > Len(entries) THEN 0
    ELSE IF entries[i].id = key THEN i
    ELSE IndexOf(entries, key, i + 1)

\* registry.get(id): the LIT's reference, 0 for undefined
find(reg, id) ==
    LET i == IndexOf(reg, id, 1) IN IF i = 0 THEN 0 ELSE reg[i].ref

\* registry.set(id, lit)
RegistrySet(reg, id, ref) ==
    LET i == IndexOf(reg, id, 1)
    IN  IF i = 0 THEN Append(reg, [id |-> id, ref |-> ref])
        ELSE [reg EXCEPT ![i] = [id |-> id, ref |-> ref]]

\* getAllLITs(): the references in insertion order
getAllLITs(reg) == [i \in 1..Len(reg) |-> reg[i].ref]

\* the order in which createDemoNetwork() composes its LITs; the empty config
\* comes last
Rank(type) ==
    CASE type = "knowledge" -> 1 [] type = "process" -> 2 [] type = "creative" -> 3
      [] OTHER -> 4

\* the types of the LITs composed from the example configs so far
Composed ==
    LET IsExample(lit) == lit.metadata = NoMetadata
        examples == SelectSeq(heap, IsExample)
    IN  [i \in 1..Len(examples) |-> examples[i].type]

\* compose(config), the configs in the order of createDemoNetwork()
Compose(name) ==
    /\ \A i \in 1..Len(Composed) : Rank(Composed[i]) <= Rank(name)
    /\ LET ref == Len(heap) + 1
           lit == NewLIT(ExampleConfig(name), ref, now)
       IN  /\ heap' = Append(heap, lit)
           /\ registry' = RegistrySet(registry, lit.id, ref)
           /\ last' = Result("compose", "none", ref, 0)
    /\ UNCHANGED <<now, patterns, history, calls>>

\* network(lits): lits[i].relate(lits[i + 1], relationType) for each i
RECURSIVE network(_, _, _, _)
network(h, refs, i, t) ==
    IF i >= Len(refs) THEN h
    ELSE network([h EXCEPT ![refs[i]] = relate(@, h[refs[i + 1]].id, "connected", t)],
                 refs, i + 1, t)

\* composer.network(composer.getAllLITs())
Network ==
    /\ calls < MaxCalls
    /\ Len(registry) >= 2
    /\ heap' = network(heap, getAllLITs(registry), 1, now)
    /\ last' = Result("network", "none", 0, 0)
    /\ calls' = calls + 1
    /\ UNCHANGED <<now, registry, patterns, history>>

(***************************************************************************)
(* The methods of one LIT.                                                 *)
(***************************************************************************)
\* lit.interact('query', data), data with impact 0.3 or without impact
Interact(ref, impact) ==
    /\ calls < MaxCalls
    /\ heap' = [heap EXCEPT ![ref] = interact(@, "query", impact, now)]
    /\ last' = Result("interact", "none", ref, 0)
    /\ calls' = calls + 1
    /\ UNCHANGED <<now, registry, patterns, history>>

\* lit.transform(transformFn)
Transform(ref, fn) ==
    /\ calls < MaxCalls
    /\ heap' = [heap EXCEPT ![ref] = transform(@, TransformFn(fn, @.content), now)]
    /\ last' = Result("transform", "none", ref, 0)
    /\ calls' = calls + 1
    /\ UNCHANGED <<now, registry, patterns, history>>

\* lit.relate(otherLit, 'informs')
Relate(ref, other) ==
    /\ calls < MaxCalls
    /\ heap' = [heap EXCEPT ![ref] = relate(@, heap[other].id, "informs", now)]
    /\ last' = Result("relate", "none", ref, 0)
    /\ calls' = calls + 1
    /\ UNCHANGED <<now, registry, patterns, history>>

\* agentSystem.defineCapability(name, handler)
defineCapability(lit, name) ==
    LET caps == Append(lit.caps, [name |-> name, uses |-> Num(0), handler |-> name])
        agency == calculateAgency(caps)
    IN  [lit EXCEPT !.caps = caps, !.autonomy = agency.autonomy,
                    !.intentionality = agency.intentionality,
                    !.effectivity = agency.effectivity]

DefineCapability(ref, name) ==
    /\ calls < MaxCalls
    /\ heap' = [heap EXCEPT ![ref] = defineCapability(@, name)]
    /\ last' = Result("defineCapability", "none", ref, 0)
    /\ calls' = calls + 1
    /\ UNCHANGED <<now, registry, patterns, history>>

\* the LIT after executeCapability(name, context) found capability i;
\* context is {lit: this LIT} or {}; a handler that throws leaves the call
\* before calculateAgency()
executeCapability(lit, i, withLit) ==
    LET counted == [lit EXCEPT !.caps[i].uses = Increment(@)]
        handled == [counted EXCEPT !.content = HandlerEffect(lit.caps[i].handler, @)]
        agency == calculateAgency(handled.caps)
    IN  IF ReadsLit(lit.caps[i].handler) /\ ~withLit THEN counted
        ELSE [handled EXCEPT !.autonomy = agency.autonomy,
                             !.intentionality = agency.intentionality,
                             !.effectivity = agency.effectivity]

ExecuteCapability(ref, name, withLit) ==
    LET i == FindCapability(heap[ref].caps, name, 1)
    IN  IF i = 0
        THEN /\ last' = [Result("executeCapability", "Capability not found", ref, 0)
                            EXCEPT !.name = name]
             /\ UNCHANGED <<now, heap, registry, patterns, history, calls>>
        ELSE /\ calls < MaxCalls
             /\ heap' = [heap EXCEPT ![ref] = executeCapability(@, i, withLit)]
             /\ last' = [Result("executeCapability",
                                IF ReadsLit(heap[ref].caps[i].handler) /\ ~withLit
                                THEN "TypeError" ELSE "none",
                                ref, 1)
                            EXCEPT !.name = name]
             /\ calls' = calls + 1
             /\ UNCHANGED <<now, registry, patterns, history>>

CapabilityNames == {"query", "execute", "reset", "generate", "generate_emergent", "missing"}

(***************************************************************************)
(* XenialFusionEngine.                                                     *)
(***************************************************************************)
\* the position of the pattern called name, 0 if there is none
RECURSIVE PatternIndex(_, _, _)
PatternIndex(pats, name, i) ==
    IF i > Len(pats) THEN 0
    ELSE IF pats[i].name = name THEN i
    ELSE PatternIndex(pats, name, i + 1)

\* fusionPatterns.set(pattern.name, pattern)
registerPattern(pats, pattern) ==
    LET i == PatternIndex(pats, pattern.name, 1)
    IN  IF i = 0 THEN Append(pats, pattern) ELSE [pats EXCEPT ![i] = pattern]

\* a caller registers a pattern of its own, or a new Harmonic Synthesis
RegisteredPatterns ==
    {FusionPattern("Custom", "custom"), FusionPattern("Harmonic Synthesis", "harmonic")}

\* registerPattern(pattern), when it changes the Map
RegisterPattern(pattern) ==
    /\ registerPattern(patterns, pattern) # patterns
    /\ patterns' = registerPattern(patterns, pattern)
    /\ last' = Result("registerPattern", "none", 0, 0)
    /\ UNCHANGED <<now, heap, registry, history, calls>>

IsCreative(lit) == lit.type \in {"creative", "emergent-creative"}

\* a selectFusionPattern() that looks at the types before the values
selectFusionPatternByType(lits, t) ==
    IF \A i \in 1..Len(lits) : IsCreative(lits[i]) THEN "Creative Amplification"
    ELSE IF /\ \E i \in 1..Len(lits) : lits[i].type = "process"
            /\ \E i \in 1..Len(lits) : lits[i].type = "knowledge"
         THEN "Processual Integration"
    ELSE IF JsGt(JsSum(Values(lits, t)), 700 * Len(lits)) THEN "Xenial Transcendence"
    ELSE "Harmonic Synthesis"

\* selectFusionPattern(lits) at clock t: the name it looks up
selectFusionPattern(lits, t) ==
    IF JsGt(JsSum(Values(lits, t)), 700 * Len(lits)) THEN "Xenial Transcendence"
    ELSE IF \A i \in 1..Len(lits) : IsCreative(lits[i]) THEN "Creative Amplification"
    ELSE IF /\ \E i \in 1..Len(lits) : lits[i].type = "process"
            /\ \E i \in 1..Len(lits) : lits[i].type = "knowledge"
         THEN "Processual Integration"
    ELSE "Harmonic Synthesis"

\* litIDs.map(id => find(id)).filter(lit => lit !== undefined): the references
Resolve(reg, litIDs) ==
    LET Found(r) == r # 0
    IN  SelectSeq([i \in 1..Len(litIDs) |-> find(reg, litIDs[i])], Found)

Lits(h, refs) == [i \in 1..Len(refs) |-> h[refs[i]]]

\* a fuse() that selects a pattern itself when the one named is unknown
SelectedPatternOrDefault(pats, lits, patternName, t) ==
    LET i == PatternIndex(pats, patternName, 1)
    IN  IF patternName # "" /\ i # 0 THEN i
        ELSE PatternIndex(pats, selectFusionPattern(lits, t), 1)

\* the pattern fuse() uses: its position in patterns, 0 for undefined;
\* patternName = "" stands for a call without patternName
SelectedPattern(pats, lits, patternName, t) ==
    PatternIndex(pats, IF patternName # "" THEN patternName
                       ELSE selectFusionPattern(lits, t), 1)

\* a fuse() that counts the ids it is given, not the LITs it finds
FuseErrorCountingIds(h, reg, pats, litIDs, patternName, t) ==
    LET lits == Lits(h, Resolve(reg, litIDs))
        p == SelectedPattern(pats, lits, patternName, t)
    IN  IF Len(litIDs) < 2 THEN "Fusion requires at least 2 LITs"
        ELSE IF p = 0 THEN "Fusion pattern not found"
        ELSE IF ~canFuse(pats[p], lits) THEN "insufficient coherence"
        ELSE "none"

\* the checks of fuse() before it executes the pattern: the error thrown, or "none"
FuseError(h, reg, pats, litIDs, patternName, t) ==
    LET lits == Lits(h, Resolve(reg, litIDs))
        p == SelectedPattern(pats, lits, patternName, t)
    IN  IF Len(lits) < 2 THEN "Fusion requires at least 2 LITs"
        ELSE IF p = 0 THEN "Fusion pattern not found"
        ELSE IF ~canFuse(pats[p], lits) THEN "insufficient coherence"
        ELSE "none"

\* lits.forEach(sourceLIT => sourceLIT.relate(fusedLIT, 'fused-into'))
RECURSIVE RelateAll(_, _, _, _, _)
RelateAll(h, refs, i, fusedId, t) ==
    IF i > Len(refs) THEN h
    ELSE RelateAll([h EXCEPT ![refs[i]] = relate(@, fusedId, "fused-into", t)],
                   refs, i + 1, fusedId, t)

\* pattern.execute(lits, this): usageCount++
execute(pats, p) == [pats EXCEPT ![p].usageCount = @ + 1]

\* the relations fuse() creates once the fused LIT exists
CreateRelations(h, refs, fusedId, t) == RelateAll(h, refs, 1, fusedId, t)

\* a logic that constructs the fused LIT without the composer
constructed(reg, id, ref) == reg

\* engine.litComposer.compose(...) in the logic of a pattern: the registry
\* once the fused LIT is composed
composed(reg, id, ref) == RegistrySet(reg, id, ref)

\* a history that holds the last fusion only
replace(hist, fusionRecord) == <<fusionRecord>>

\* this.fusionHistory.push(fusionRecord)
push(hist, fusionRecord) == Append(hist, fusionRecord)

\* a successful fuse(litIDs, patternName); lag is the time that passes between
\* the construction of the fused LIT and its first interaction
Fused(litIDs, patternName, lag) ==
    LET refs == Resolve(registry, litIDs)
        lits == Lits(heap, refs)
        p == SelectedPattern(patterns, lits, patternName, now)
        ref == Len(heap) + 1
        fusedLIT == NewLIT(fusionLogic(patterns[p], lits), ref, now)
        emergence == EmergenceMetrics(lits, fusedLIT, now)
        score == emergenceScore(emergence)
        boosted == interact(fusedLIT, "fusion", IF IsNum(score) THEN score.v ELSE 0, now + lag)
    IN  /\ patterns' = execute(patterns, p)
        /\ registry' = composed(registry, fusedLIT.id, ref)
        /\ heap' = CreateRelations(Append(heap, boosted), refs, fusedLIT.id, now + lag)
        /\ history' = push(history,
               [pattern |-> patterns[p].name, sourceIDs |-> litIDs,
                resultID |-> fusedLIT.id,
                emergence |-> [novelty |-> emergence.novelty,
                               synergy |-> emergence.synergy,
                               stability |-> emergence.stability,
                               resonance |-> emergence.resonance,
                               score |-> score]])
        /\ now' = now + lag
        /\ last' = FuseResult("none", ref, litIDs, patternName)
        /\ UNCHANGED calls

\* a fuse() that counts the use of the pattern before it checks coherence
FuseCountingAttempts(litIDs, patternName) ==
    LET err == FuseError(heap, registry, patterns, litIDs, patternName, now)
        p == SelectedPattern(patterns, Lits(heap, Resolve(registry, litIDs)), patternName, now)
    IN  IF err # "none"
        THEN /\ last' = FuseResult(err, 0, litIDs, patternName)
             /\ patterns' = IF err = "insufficient coherence"
                            THEN execute(patterns, p) ELSE patterns
             /\ UNCHANGED <<now, heap, registry, history, calls>>
        ELSE \E lag \in {0, 1} : Fused(litIDs, patternName, lag)

\* fuse(litIDs, patternName)
Fuse(litIDs, patternName) ==
    LET err == FuseError(heap, registry, patterns, litIDs, patternName, now)
    IN  IF err # "none"
        THEN /\ last' = FuseResult(err, 0, litIDs, patternName)
             /\ UNCHANGED <<now, heap, registry, patterns, history, calls>>
        ELSE \E lag \in {0, 1} : Fused(litIDs, patternName, lag)

\* the ids a caller passes: ids of the registry and 0, an id no LIT has
CallerIds == {registry[i].id : i \in 1..Len(registry)} \cup {0}

\* the id lists a caller passes: one id; two ids in ascending order; the
\* unknown id twice; once two LITs are registered, the first of them twice
\* and the two of them with the unknown id in between
IdLists ==
    {<<a>> : a \in CallerIds}
        \cup {l \in {<<a, b>> : a \in CallerIds, b \in CallerIds} : l[1] < l[2]}
        \cup {<<0, 0>>}
        \cup IF Len(registry) < 2 THEN {}
             ELSE {<<registry[1].id, registry[1].id>>,
                   <<registry[1].id, 0, registry[2].id>>}

PatternNames ==
    {"", "Harmonic Synthesis", "Processual Integration", "Creative Amplification",
     "Xenial Transcendence", "Custom"}

\* the script runs until a call throws: nothing catches the error
Running == last.err = "none"

\* the composer and the engine are called while fewer than MaxLITs LIT
\* objects exist
Room == Len(heap) < MaxLITs

Next ==
    \/ Running /\ Room /\ \E name \in ConfigNames : Compose(name)
    \/ Running /\ Room /\ \E pattern \in RegisteredPatterns : RegisterPattern(pattern)
    \/ Running /\ Room /\ \E litIDs \in IdLists, patternName \in PatternNames :
                              Fuse(litIDs, patternName)

Spec == Init /\ [][Next]_vars

(***************************************************************************)
(* The life of the LITs of a composer: two LITs composed from any of the   *)
(* example configs, then the methods of the LITs as time passes.           *)
(***************************************************************************)
InitLIT ==
    \E first \in ConfigNames, second \in ConfigNames :
        LET a == NewLIT(ExampleConfig(first), 1, 0)
            b == NewLIT(ExampleConfig(second), 2, 0)
        IN  /\ now = 0
            /\ heap = <<a, b>>
            /\ registry = RegistrySet(RegistrySet(<<>>, a.id, 1), b.id, 2)
            /\ patterns = DefaultPatterns
            /\ history = <<>>
            /\ last = Result("compose", "none", 2, 0)
            /\ calls = 0

NextLIT ==
    \/ Running /\ Tick
    \/ Running /\ Network
    \/ Running /\ \E ref \in Refs, impact \in {0, 300} : Interact(ref, impact)
    \/ Running /\ \E ref \in Refs, fn \in TransformNames : Transform(ref, fn)
    \/ Running /\ \E ref \in Refs, other \in Refs : Relate(ref, other)
    \/ Running /\ \E ref \in Refs : DefineCapability(ref, "query")
    \/ Running /\ \E ref \in Refs, name \in CapabilityNames, withLit \in BOOLEAN :
                      ExecuteCapability(ref, name, withLit)

SpecLIT == InitLIT /\ [][NextLIT]_vars

(***************************************************************************)
(* Multi-stage fusion: two LITs composed from any of the example configs,  *)
(* then fusions that each take the newest LIT of the registry as an input, *)
(* and Harmonic Synthesis registered anew between them.                    *)
(***************************************************************************)
\* the id of the LIT registered last
Newest == registry[Len(registry)].id

\* the newest LIT with each of the earlier ones; with an unknown id alone
\* and between the two
ChainLists ==
    {<<registry[i].id, Newest>> : i \in 1..(Len(registry) - 1)}
        \cup {<<0, Newest>>, <<registry[1].id, 0, Newest>>}

\* the pattern is left to the engine, or is Harmonic Synthesis
ChainNames == {"", "Harmonic Synthesis"}

\* the pattern a caller registers anew between the fusions
ChainPatterns == {pattern \in RegisteredPatterns : pattern.name = "Harmonic Synthesis"}

\* more fusions may follow
Chaining == Len(history) < MaxFusions

NextChain ==
    \/ Running /\ Chaining /\ \E litIDs \in ChainLists, patternName \in ChainNames :
                                  Fuse(litIDs, patternName)
    \/ Running /\ Chaining /\ history # <<>>
               /\ \E pattern \in ChainPatterns : RegisterPattern(pattern)

SpecChain == InitLIT /\ [][NextChain]_vars

(***************************************************************************)
(* The composer on its own: LITs composed from the example configs and     *)
(* from the JSON of LITs it holds already, and the fusions the engine      *)
(* suggests for them.                                                      *)
(***************************************************************************)
\* toJSON() at clock t
toJSON(lit, t) ==
    [id |-> lit.id, type |-> lit.type, content |-> lit.content, metadata |-> lit.metadata,
     value |-> calculateValue(lit, t),
     coherence |-> coherenceScore(lit.coherenceField),
     agency |-> agencyScore(lit),
     temporal |-> temporalValue(lit, t),
     state |-> lit.state,
     relations |-> lit.relations]

\* the config fromJSON(data) hands to the constructor, which compose(data)
\* reads of data as well
JSONConfig(data) ==
    [id |-> data.id, type |-> data.type, content |-> data.content,
     metadata |-> data.metadata, capabilities |-> <<>>, relations |-> data.relations]

\* LIT.fromJSON(data) at clock t
fromJSON(data, t) == NewLIT(JSONConfig(data), 0, t)

\* compose(lit.toJSON()) for a LIT of the registry
Recompose(ref) ==
    LET new == Len(heap) + 1
        lit == NewLIT(JSONConfig(toJSON(heap[ref], now)), new, now)
    IN  /\ heap' = Append(heap, lit)
        /\ registry' = RegistrySet(registry, lit.id, new)
        /\ last' = Result("compose", "none", new, 0)
        /\ UNCHANGED <<now, patterns, history, calls>>

\* a suggestFusions() that selects the pattern for the first LIT of a pair
RECURSIVE SuggestionsForFirst(_, _, _, _)
SuggestionsForFirst(lits, i, j, t) ==
    IF i >= Len(lits) THEN <<>>
    ELSE IF j > Len(lits) THEN SuggestionsForFirst(lits, i + 1, i + 2, t)
    ELSE LET twice == coherenceScore(lits[i].coherenceField)
                        + coherenceScore(lits[j].coherenceField)
             rest == SuggestionsForFirst(lits, i, j + 1, t)
         IN  IF twice > 2 * 500
             THEN <<[lits |-> <<lits[i].id, lits[j].id>>,
                     pattern |-> selectFusionPattern(<<lits[i]>>, t),
                     potential |-> twice \div 2,
                     types |-> <<lits[i].type, lits[j].type>>]>> \o rest
             ELSE rest

\* the pairs suggestFusions() pushes, in the order of its two loops
RECURSIVE Suggestions(_, _, _, _)
Suggestions(lits, i, j, t) ==
    IF i >= Len(lits) THEN <<>>
    ELSE IF j > Len(lits) THEN Suggestions(lits, i + 1, i + 2, t)
    ELSE LET twice == coherenceScore(lits[i].coherenceField)
                        + coherenceScore(lits[j].coherenceField)
             rest == Suggestions(lits, i, j + 1, t)
         IN  IF twice > 2 * 500
             THEN <<[lits |-> <<lits[i].id, lits[j].id>>,
                     pattern |-> selectFusionPattern(<<lits[i], lits[j]>>, t),
                     potential |-> twice \div 2,
                     types |-> <<lits[i].type, lits[j].type>>]>> \o rest
             ELSE rest

\* s with e inserted after the entries whose potential is not lower
RECURSIVE Insert(_, _)
Insert(s, e) ==
    IF s = <<>> THEN <<e>>
    ELSE IF Head(s).potential >= e.potential THEN <<Head(s)>> \o Insert(Tail(s), e)
    ELSE <<e>> \o s

\* suggestions.sort((a, b) => b.potential - a.potential): a stable sort
RECURSIVE SortByPotential(_)
SortByPotential(s) ==
    IF s = <<>> THEN <<>>
    ELSE Insert(SortByPotential(SubSeq(s, 1, Len(s) - 1)), s[Len(s)])

\* slice(0, n)
Slice(s, n) == SubSeq(s, 1, Min(n, Len(s)))

\* a suggestFusions() that cuts the list before it sorts it
suggestFusionsUnranked(h, reg, t) ==
    SortByPotential(Slice(Suggestions(Lits(h, getAllLITs(reg)), 1, 2, t), 5))

\* suggestFusions() at clock t
suggestFusions(h, reg, t) ==
    Slice(SortByPotential(Suggestions(Lits(h, getAllLITs(reg)), 1, 2, t)), 5)

SuggestFusions ==
    /\ last' = [Result("suggestFusions", "none", 0, 0)
                    EXCEPT !.suggestions = suggestFusions(heap, registry, now)]
    /\ UNCHANGED <<now, heap, registry, patterns, history, calls>>

\* fuse(s.lits) for an entry s of the list suggestFusions() has just returned
FuseSuggestion(k) ==
    /\ last.op = "suggestFusions"
    /\ Fuse(last.suggestions[k].lits, "")

\* more LITs may be composed
Composing == Len(heap) < MaxComposed

NextCompose ==
    \/ Running /\ Composing /\ \E name \in ConfigNames : Compose(name)
    \/ Running /\ Composing /\ \E ref \in Refs : Recompose(ref)
    \/ Running /\ last.op # "suggestFusions" /\ SuggestFusions
    \/ Running /\ Composing /\ \E k \in 1..Len(last.suggestions) : FuseSuggestion(k)

SpecCompose == Init /\ [][NextCompose]_vars

(***************************************************************************)
(* One process LIT, createProcessLIT('Demo', steps), and the calls of its  *)
(* two capabilities with context.lit set to it.  The steps are the first   *)
(* entries of ['Compose', 'Validate', 'Deploy', 'Measure', 'Release'].     *)
(***************************************************************************)
\* the characters of the content without steps and without the digit of
\* totalSteps
ProcessBase == <<9, 10, 39, 19, 30, 28, 3, 5>>

\* the characters each step adds to the JSON, the comma before it included
StepTexts ==
    << <<1, 0, 2, 2, 0, 2, 0, 2>>, <<0, 3, 2, 0, 4, 1, 1, 0>>, <<1, 1, 2, 0, 3, 1, 0, 1>>,
       <<0, 1, 3, 1, 1, 4, 0, 0>>, <<0, 1, 3, 1, 2, 3, 0, 0>> >>

\* the character of the one-digit number n
Digit(n) == [i \in Classes |-> IF i = (n % 8) + 1 THEN 1 ELSE 0]

\* the content createProcessLIT('Demo', steps) composes, for n steps
createProcessContent(n) ==
    [ProcessContent EXCEPT
        !.steps = n,
        !.chars = VecAdd(VecAdd(ProcessBase, VecSum(SubSeq(StepTexts, 1, n))), Digit(n))]

createProcessLIT(n) ==
    Config("process", createProcessContent(n), <<Cap("execute"), Cap("reset")>>)

\* what the handler returns for this content of context.lit: its status
\* and the position in steps of the step it returns, 0 if it returns none
HandlerResult(handler, content) ==
    CASE handler = "execute" ->
            IF content.currentStep >= content.steps
            THEN [status |-> "completed", step |-> 0]
            ELSE [status |-> "executing", step |-> content.currentStep + 1]
      [] handler = "reset" -> [status |-> "reset", step |-> 0]
      [] OTHER -> [status |-> "", step |-> 0]

InitProcess ==
    /\ now = 0
    /\ \E n \in 0..MaxSteps : heap = <<NewLIT(createProcessLIT(n), 1, 0)>>
    /\ registry = <<[id |-> 1, ref |-> 1]>>
    /\ patterns = DefaultPatterns
    /\ history = <<>>
    /\ last = Result("compose", "none", 1, 0)
    /\ calls = 0

\* processLit.agentSystem.executeCapability(name, {lit: processLit})
RunCapability(name) ==
    LET i == FindCapability(heap[1].caps, name, 1)
    IN  /\ i # 0
        /\ heap' = [heap EXCEPT ![1] = executeCapability(@, i, TRUE)]
        /\ last' = [Result("executeCapability", "none", 1, 1)
                       EXCEPT !.name = name,
                              !.result = HandlerResult(heap[1].caps[i].handler,
                                                       heap[1].content)]
        /\ calls' = calls + 1
        /\ UNCHANGED <<now, registry, patterns, history>>

\* more calls may be made on the process LIT
Runnable == calls < MaxRuns

NextProcess ==
    \/ Running /\ Runnable /\ RunCapability("execute")
    \/ Running /\ Runnable /\ RunCapability("reset")

SpecProcess == InitProcess /\ [][NextProcess]_vars

(***************************************************************************)
(* Properties of fuse().                                                   *)
(***************************************************************************)
\* the LITs the last fuse() found for its ids; the ids of the sources are in
\* the registry before and after the call, the id of the fused LIT is new
LastLits == Lits(heap, Resolve(registry, last.litIDs))

\* the last fuse() named a pattern the engine has, or left the choice to
\* selectFusionPattern(), which finds each of the default patterns
LastPatternExists ==
    last.patternName = "" \/ \E i \in 1..Len(patterns) : patterns[i].name = last.patternName

\* the average coherenceScore of the LITs of the last fuse() is at least 0.3
LastCoherent == SumSeq(Coherences(LastLits)) >= 300 * Len(LastLits)

\* C1: fuse() throws 'Fusion requires at least 2 LITs' whenever fewer than
\* two of the ids it is given are ids of registered LITs: the ids that are
\* not registered are dropped before the LITs are counted
C1_FewerThanTwoFound ==
    last.op = "fuse" /\ Len(LastLits) < 2 => last.err = "Fusion requires at least 2 LITs"

\* a fuse() of two ids, one of them unknown, has thrown
C1_Witness ==
    /\ last.op = "fuse"
    /\ Len(last.litIDs) = 2
    /\ Len(LastLits) = 1
    /\ last.err = "Fusion requires at least 2 LITs"

\* C2: a fuse() that found at least two LITs and a pattern, a default one or
\* one registered later, returns the fused LIT exactly when the average
\* coherenceScore of the LITs found is at least 0.3, and throws 'insufficient
\* coherence' otherwise
C2_CoherenceThreshold ==
    last.op = "fuse" /\ Len(LastLits) >= 2 /\ LastPatternExists =>
        IF LastCoherent THEN last.err = "none" /\ last.ref = Len(heap)
        ELSE last.err = "insufficient coherence"

\* a registered pattern has refused two LITs whose average coherence is too low
C2_Witness ==
    /\ last.op = "fuse"
    /\ last.patternName = "Custom"
    /\ Len(LastLits) >= 2
    /\ last.err = "insufficient coherence"

\* C3: fuse() fails in three ways and no other: fewer than two LITs found,
\* a named pattern the engine does not have, and insufficient coherence; a
\* fuse() that found two LITs completes exactly when the pattern exists and
\* the average coherence is at least 0.3
C3_FuseFailures ==
    last.op = "fuse" =>
        /\ last.err \in {"none", "Fusion requires at least 2 LITs",
                         "Fusion pattern not found", "insufficient coherence"}
        /\ Len(LastLits) >= 2 =>
               /\ last.err = "none" <=> LastPatternExists /\ LastCoherent
               /\ ~LastPatternExists => last.err = "Fusion pattern not found"

\* a fuse() of two registered LITs has thrown for the pattern it was given
C3_Witness ==
    /\ last.op = "fuse"
    /\ Len(LastLits) >= 2
    /\ last.err = "Fusion pattern not found"

\* C3 as the specification states it: every fuse() that finds two LITs
\* completes, whatever the pattern named and the coherence of the LITs
C3_AsStated == last.op = "fuse" /\ Len(LastLits) >= 2 => last.err = "none"

\* C4: a fuse() that throws changes nothing but the error reported: the
\* registry, the fusion history, the patterns with their usage counts and
\* every LIT, with its relations, interactions and state, stay as they were
C4_FailedFuseChangesNothing ==
    [][last'.op = "fuse" /\ last'.err # "none" =>
            UNCHANGED <<heap, registry, patterns, history>>]_vars

\* a fuse() has thrown after it had selected a pattern for two LITs
C4_Witness ==
    /\ last.op = "fuse"
    /\ last.patternName = ""
    /\ Len(registry) >= 2
    /\ last.err = "insufficient coherence"

(***************************************************************************)
(* Properties of the LITs.                                                 *)
(***************************************************************************)
\* C5: executeCapability() with a name none of the LIT's capabilities has
\* throws 'Capability not found', calls no handler and leaves every LIT, with
\* the uses counters and the autonomy, intentionality and effectivity of its
\* agent system, as it was
C5_UnknownCapabilityChangesNothing ==
    [][/\ last'.op = "executeCapability"
       /\ \A i \in 1..Len(heap[last'.ref].caps) : heap[last'.ref].caps[i].name # last'.name
       => /\ last'.err = "Capability not found"
          /\ last'.handled = 0
          /\ heap' = heap]_vars

\* a LIT that has capabilities was asked for one it does not have
C5_Witness ==
    /\ last.op = "executeCapability"
    /\ last.err = "Capability not found"
    /\ heap[last.ref].caps # <<>>

\* the state the README gives for a value: Decaying below 0.2, Nascent from
\* 0.2, Stable from 0.4, Resonant from 0.6, Transcendent from 0.8 to 1.0
DocumentedState(value) ==
    IF ~IsNum(value) THEN "none"
    ELSE IF value.v < 200 THEN "decaying"
    ELSE IF value.v < 400 THEN "nascent"
    ELSE IF value.v < 600 THEN "stable"
    ELSE IF value.v < 800 THEN "resonant"
    ELSE "transcendent"

\* C6: calculateValue() is a number from 0 to 1, for every LIT and at every
\* reading of the clock, the one of the LIT's construction included
C6_ValueInRange ==
    \A ref \in Refs :
        LET value == calculateValue(heap[ref], now)
        IN  IsNum(value) /\ 0 <= value.v /\ value.v <= Scale

\* C7: right after updateState(), which the constructor, interact() and
\* transform() end with, the state of the LIT is the one documented for its
\* value: 'transcendent' only for a value of at least 0.8
C7_StateMatchesValue ==
    last.op \in {"compose", "interact", "transform"} =>
        heap[last.ref].state = DocumentedState(calculateValue(heap[last.ref], now))

\* the LITs the last call changed
Affected ==
    IF last.op = "network" THEN {registry[i].ref : i \in 1..(Len(registry) - 1)}
    ELSE {last.ref}

\* C8: after each of interact, transform, relate, executeCapability,
\* defineCapability and network, the state of every LIT the call changed is
\* the one documented for the value the LIT has then, if that is a number
C8_StateFollowsEveryCall ==
    /\ last.op \in {"interact", "transform", "relate", "executeCapability",
                    "defineCapability", "network"}
    /\ last.err = "none"
    => \A ref \in Affected :
          LET value == calculateValue(heap[ref], now)
          IN  IsNum(value) => heap[ref].state = DocumentedState(value)

\* the LITs the last fuse() combined, and the LIT it returned
Sources == Resolve(registry, last.litIDs)

\* lit has a relation of this type to the LIT with this id
Related(lit, relationType, id) ==
    \E i \in 1..Len(lit.relations) :
        lit.relations[i].type = relationType /\ lit.relations[i].targetId = id

\* C9: after a successful fuse() with any of the four default patterns,
\* every source has a 'fused-into' relation to the fused LIT and the fused
\* LIT has a 'fused-from' relation to every source
C9_RelationsBothWays ==
    /\ last.op = "fuse"
    /\ last.err = "none"
    /\ history[Len(history)].pattern \in
            {"Harmonic Synthesis", "Processual Integration", "Creative Amplification",
             "Xenial Transcendence"}
    => \A i \in 1..Len(Sources) :
          /\ Related(heap[Sources[i]], "fused-into", heap[last.ref].id)
          /\ Related(heap[last.ref], "fused-from", heap[Sources[i]].id)

\* C10: whenever fuse() succeeds, the value of the fused LIT is greater than
\* the sum of the values of its sources
C10_WholeGreaterThanParts ==
    last.op = "fuse" /\ last.err = "none" =>
        LET parts == JsSum(Values(Lits(heap, Sources), now))
            whole == calculateValue(heap[last.ref], now)
        IN  IsNum(whole) /\ IsNum(parts) /\ whole.v > parts.v

(***************************************************************************)
(* Properties of the emergence metrics and of the fusion history.          *)
(***************************************************************************)
\* the step is a successful fuse()
FuseStep == last'.op = "fuse" /\ last'.err = "none" /\ Len(history') = Len(history) + 1

\* the LITs a fuse() step combines, as they are when the metrics are calculated
Inputs == Lits(heap, Resolve(registry, last'.litIDs))

\* the fused LIT of a fuse() step as it is when the metrics are calculated:
\* before its first interaction
Output == [heap'[last'.ref] EXCEPT !.interactions = <<>>, !.persistence = Num(0)]

\* the mean value of the inputs of a fuse() step
InputValue ==
    LET sum == JsSum(Values(Inputs, now))
    IN  IF IsNum(sum) THEN Num(sum.v \div Len(Inputs)) ELSE NaN

\* the value of the fused LIT of a fuse() step is greater than that of the inputs
Amplified ==
    LET outputValue == calculateValue(Output, now)
    IN  IsNum(outputValue) /\ IsNum(InputValue) /\ outputValue.v > InputValue.v

\* the metrics a fuse() step records
Recorded == history'[Len(history')].emergence

\* C11: the synergy a fuse() calculates is greater than 0 exactly when the
\* value of the fused LIT is greater than the value of the inputs, their
\* mean, and is 0 otherwise
C11_SynergyIffAmplified ==
    [][FuseStep => IF Amplified THEN JsGt(Recorded.synergy, 0)
                   ELSE Recorded.synergy = Num(0)]_vars

\* C12: in every record of fusionHistory, the record of the metrics that
\* fuse() returned, novelty, stability and resonance are numbers from 0 to 1
\* and synergy is a number that is at least 0
C12_MetricsInRange ==
    \A i \in 1..Len(history) :
        LET metrics == history[i].emergence
        IN  /\ metrics.novelty \in 0..Scale
            /\ metrics.stability \in 0..Scale
            /\ metrics.resonance \in 0..Scale
            /\ IsNum(metrics.synergy) /\ metrics.synergy.v >= 0

\* the record of the last successful fuse()
LastRecord == history[Len(history)]

\* C13: a fuse() without patternName applies Xenial Transcendence exactly
\* when the average coherenceScore of the LITs it found is above 0.7
C13_XenialIffCoherent ==
    last.op = "fuse" /\ last.err = "none" /\ last.patternName = "" =>
        (LastRecord.pattern = "Xenial Transcendence"
            <=> SumSeq(Coherences(LastLits)) > 700 * Len(LastLits))

\* the inputs documented for a default pattern: knowledge LITs for Harmonic
\* Synthesis, process plus knowledge LITs for Processual Integration,
\* creative LITs for Creative Amplification
Compatible(patternName, lits) ==
    LET Types == {lits[i].type : i \in 1..Len(lits)}
    IN  CASE patternName = "Harmonic Synthesis" -> Types = {"knowledge"}
          [] patternName = "Processual Integration" -> Types = {"process", "knowledge"}
          [] patternName = "Creative Amplification" ->
                Types \subseteq {"creative", "emergent-creative"}
          [] OTHER -> TRUE

\* C14: a fuse() that names one of the default patterns succeeds only if the
\* types of the LITs it found are the inputs documented for that pattern
C14_OnlyCompatibleLITsFuse ==
    last.op = "fuse" /\ last.err = "none" => Compatible(last.patternName, LastLits)

(***************************************************************************)
(* Properties of the composer and of suggestFusions().                     *)
(***************************************************************************)
\* the pairs of positions of getAllLITs() whose mean coherenceScore is above
\* 0.5, each with twice that mean
Qualifying ==
    LET all == Lits(heap, getAllLITs(registry))
        Twice(i, j) == coherenceScore(all[i].coherenceField)
                           + coherenceScore(all[j].coherenceField)
    IN  {[lits |-> {all[p[1]].id, all[p[2]].id}, twice |-> Twice(p[1], p[2])] :
            p \in {q \in (1..Len(all)) \X (1..Len(all)) :
                      q[1] < q[2] /\ Twice(q[1], q[2]) > 1000}}

\* C15: suggestFusions() returns at most 5 entries in the order of
\* non-increasing potential; each entry names two different registered LITs
\* whose mean coherenceScore is its potential and is above 0.5; no pair is
\* named twice, and no pair left out has a higher potential than one returned
C15_TopSuggestions ==
    last.op = "suggestFusions" =>
        LET s == last.suggestions
            Pair(i) == {s[i].lits[1], s[i].lits[2]}
        IN  /\ Len(s) <= 5
            /\ \A i \in 1..(Len(s) - 1) : s[i].potential >= s[i + 1].potential
            /\ \A i \in 1..Len(s) :
                  /\ s[i].lits[1] # s[i].lits[2]
                  /\ \E q \in Qualifying :
                        q.lits = Pair(i) /\ s[i].potential = q.twice \div 2
            /\ \A i, j \in 1..Len(s) : i # j => Pair(i) # Pair(j)
            /\ \A q \in Qualifying :
                  (\A i \in 1..Len(s) : Pair(i) # q.lits) =>
                      \A i \in 1..Len(s) : q.twice \div 2 <= s[i].potential

\* suggestFusions() had six pairs to choose from and returned five
C15_Witness ==
    /\ last.op = "suggestFusions"
    /\ Cardinality(Qualifying) = 6
    /\ Len(last.suggestions) = 5
    /\ last.suggestions[1].potential > last.suggestions[5].potential

\* C16: a successful fuse() registers the fused LIT: the registry grows by
\* exactly one entry, find() returns the fused LIT for its id, and that id
\* and the id of every LIT fused before resolve as inputs of a later fuse()
C16_FusedLITsAreRegistered ==
    [][FuseStep =>
          LET fusedId == heap'[last'.ref].id
          IN  /\ Len(registry') = Len(registry) + 1
              /\ find(registry, fusedId) = 0
              /\ find(registry', fusedId) = last'.ref
              /\ \A i \in 1..Len(history') :
                    LET ref == find(registry', history'[i].resultID)
                    IN  ref # 0 /\ heap'[ref].id = history'[i].resultID]_vars

\* a fused LIT was an input of the fusion that has just succeeded
C16_Witness ==
    /\ last.op = "fuse" /\ last.err = "none"
    /\ Len(history) >= 2
    /\ \E i \in 1..Len(last.litIDs) : last.litIDs[i] = history[1].resultID
    /\ find(registry, LastRecord.resultID) = last.ref

\* the LITs that fusions have composed
FusedLITs(h) == {ref \in 1..Len(h) : h[ref].metadata # NoMetadata}

\* C17: a successful fuse() appends exactly one record to the history, with
\* the id of the fused LIT and the name of the pattern used; every other
\* step, a failed fuse() included, leaves the history as it was; so the
\* history is as long as the number of successful fusions
C17_AppendOnlyHistory ==
    [][IF last'.op = "fuse" /\ last'.err = "none"
       THEN /\ Len(history') = Len(history) + 1
            /\ SubSeq(history', 1, Len(history)) = history
            /\ history'[Len(history')].resultID = heap'[last'.ref].id
            /\ history'[Len(history')].pattern =
                    IF last'.patternName # "" THEN last'.patternName
                    ELSE selectFusionPattern(Inputs, now)
            /\ Len(history') = Cardinality(FusedLITs(heap'))
       ELSE /\ history' = history
            /\ Len(history') = Cardinality(FusedLITs(heap'))]_vars

\* a second record has been appended behind the record of the first fusion
C17_Witness ==
    /\ last.op = "fuse" /\ last.err = "none"
    /\ Len(history) = 2
    /\ history[1].resultID # history[2].resultID
    /\ history[2].resultID = heap[last.ref].id

\* the ids of the LITs that the last fuse() fused
FusedIds == [i \in 1..Len(LastLits) |-> LastLits[i].id]

\* C18: the record of a fusion names as sourceIDs exactly the ids of the LITs
\* that were fused, which are the sourceIDs in the metadata of the fused LIT,
\* whatever ids fuse() was given
C18_SourceIDsAreTheFusedLITs ==
    last.op = "fuse" /\ last.err = "none" =>
        /\ LastRecord.sourceIDs = FusedIds
        /\ LastRecord.sourceIDs = heap[last.ref].metadata.sourceIDs

\* C19: after n compose() calls getAllLITs() has n elements, and find()
\* returns every LIT that compose() has returned when given its id
C19_OneEntryPerCompose ==
    /\ Len(getAllLITs(registry)) = Len(heap)
    /\ \A ref \in Refs : find(registry, heap[ref].id) = ref

\* lit and the LIT that fromJSON() makes of its JSON have the same identity
\* and content
SameLIT(lit, back) ==
    /\ back.id = lit.id
    /\ back.type = lit.type
    /\ back.content = lit.content
    /\ back.metadata = lit.metadata
    /\ back.relations = lit.relations

\* back has the state and the scores that data reports
AsReported(data, back, t) ==
    /\ back.state = data.state
    /\ coherenceScore(back.coherenceField) = data.coherence
    /\ agencyScore(back) = data.agency
    /\ calculateValue(back, t) = data.value

\* C20: fromJSON(L.toJSON()) has the id, type, content, metadata and relations
\* of L, and the state, coherence, agency and value that toJSON() reported
C20_RoundTrip ==
    \A ref \in Refs :
        LET data == toJSON(heap[ref], now)
            back == fromJSON(data, now)
        IN  SameLIT(heap[ref], back) /\ AsReported(data, back, now)

(***************************************************************************)
(* Properties of the agent system and of the capabilities.                 *)
(***************************************************************************)
\* C21: autonomy, intentionality, effectivity and agencyScore of every LIT
\* are numbers between 0 and 1, whether its capabilities were defined or
\* given to the constructor
C21_AgencyInRange ==
    \A ref \in Refs :
        LET lit == heap[ref]
        IN  /\ lit.autonomy \in 0..Scale
            /\ IsNum(lit.intentionality) /\ lit.intentionality.v \in 0..Scale
            /\ lit.effectivity \in 0..Scale
            /\ IsNum(agencyScore(lit)) /\ agencyScore(lit).v \in 0..Scale

\* C24: autonomy, intentionality and effectivity of every LIT are the values
\* calculateAgency() computes from its capabilities and their uses
C24_AgencyIsCalculated ==
    \A ref \in Refs :
        LET agency == calculateAgency(heap[ref].caps)
        IN  /\ heap[ref].autonomy = agency.autonomy
            /\ heap[ref].intentionality = agency.intentionality
            /\ heap[ref].effectivity = agency.effectivity

\* capability i of LIT ref is the one the executeCapability() of this step
\* selected: the earliest with the name
Selected(ref, i) ==
    /\ last'.op = "executeCapability" /\ last'.ref = ref
    /\ heap[ref].caps[i].name = last'.name
    /\ \A k \in 1..(i - 1) : heap[ref].caps[k].name # last'.name

\* C25: the uses of every capability, defined or given to the constructor,
\* is a non-negative integer that starts at 0 and grows by one with each
\* executeCapability() that selects the capability, the earliest of its
\* name, and with nothing else
C25_UsesCountCalls ==
    [][\A ref \in 1..Len(heap') : \A i \in 1..Len(heap'[ref].caps) :
          LET uses == heap'[ref].caps[i].uses
              known == ref <= Len(heap) /\ i <= Len(heap[ref].caps)
              before == IF known THEN heap[ref].caps[i].uses ELSE Num(0)
          IN  /\ IsNum(uses) /\ uses.v >= 0
              /\ IsNum(before)
              /\ uses.v = before.v + IF known /\ Selected(ref, i) THEN 1 ELSE 0]_vars

(***************************************************************************)
(* Further properties of fuse() and of the selection of a pattern.         *)
(***************************************************************************)
\* C22: every successful fuse() combined at least two distinct registered
\* LITs; a list that names one LIT twice is rejected
C22_TwoDistinctLITs ==
    last.op = "fuse" /\ last.err = "none" =>
        Cardinality({Sources[i] : i \in 1..Len(Sources)}) >= 2

\* the types of the LITs given to the fuse() of this step
InputTypes == {Inputs[i].type : i \in 1..Len(Inputs)}

\* the mean calculateValue() of these LITs is a number above 0.7
HighValue ==
    LET sum == JsSum([i \in 1..Len(Inputs) |-> calculateValue(Inputs[i], now)])
    IN  IsNum(sum) /\ sum.v > 700 * Len(Inputs)

\* the pattern the documented priority gives for these LITs
Priority ==
    IF HighValue THEN "Xenial Transcendence"
    ELSE IF InputTypes \subseteq {"creative", "emergent-creative"}
         THEN "Creative Amplification"
    ELSE IF {"process", "knowledge"} \subseteq InputTypes THEN "Processual Integration"
    ELSE "Harmonic Synthesis"

SourceRefs == LET refs == Resolve(registry, last'.litIDs) IN {refs[i] : i \in 1..Len(refs)}

\* the source has one more relation, to the fused LIT, and one more
\* interaction, and is otherwise the LIT it was
Linked(ref, fusedId) ==
    /\ heap'[ref].relations =
            Append(heap[ref].relations, [targetId |-> fusedId, type |-> "fused-into"])
    /\ Len(heap'[ref].interactions) = Len(heap[ref].interactions) + 1
    /\ SubSeq(heap'[ref].interactions, 1, Len(heap[ref].interactions)) = heap[ref].interactions
    /\ heap'[ref].interactions[Len(heap'[ref].interactions)].type = "relate"
    /\ heap'[ref].id = heap[ref].id
    /\ heap'[ref].type = heap[ref].type
    /\ heap'[ref].content = heap[ref].content
    /\ heap'[ref].metadata = heap[ref].metadata
    /\ heap'[ref].caps = heap[ref].caps

\* C26: a successful fuse() gives each distinct source one relation
\* 'fused-into' to the fused LIT and one interaction 'relate' and changes
\* nothing else of its identity, content and capabilities; it changes no
\* other LIT; the fused LIT has one interaction, of type 'fusion'
C26_FuseOnlyLinksSources ==
    [][FuseStep =>
          /\ \A ref \in SourceRefs : Linked(ref, heap'[last'.ref].id)
          /\ \A ref \in Refs \ SourceRefs : heap'[ref] = heap[ref]
          /\ Len(heap'[last'.ref].interactions) = 1
          /\ heap'[last'.ref].interactions[1].type = "fusion"]_vars

\* the entry of the suggestions of this state that names these ids
Suggested(litIDs) ==
    CHOOSE s \in {last.suggestions[k] : k \in 1..Len(last.suggestions)} : s.lits = litIDs

\* C27: suggestFusions() changes no LIT, no pattern, and neither the registry
\* nor the history; and fuse(s.lits) called next for an entry s of its list
\* does not throw and applies the pattern named in s.pattern
C27_SuggestionsAreActionable ==
    [][/\ last'.op = "suggestFusions" =>
             UNCHANGED <<now, heap, registry, patterns, history>>
       /\ last.op = "suggestFusions" /\ last'.op = "fuse" =>
             /\ last'.err = "none"
             /\ Len(history') = Len(history) + 1
             /\ history'[Len(history')].pattern = Suggested(last'.litIDs).pattern
             /\ history'[Len(history')].resultID = heap'[last'.ref].id]_vars

\* a suggestion for a pair that includes a fused LIT has been fused
C27_Witness ==
    /\ last.op = "fuse" /\ last.err = "none"
    /\ Len(history) = 2
    /\ \E i \in 1..Len(last.litIDs) : last.litIDs[i] = history[1].resultID

\* the number of history records that carry the name
Records(name) == Cardinality({i \in 1..Len(history) : history[i].pattern = name})

\* C28: the usageCount of every pattern is the number of history records
\* with its name, and the usageCounts add up to the length of the history
C28_UsageCountsMatchHistory ==
    /\ SumSeq([p \in 1..Len(patterns) |-> patterns[p].usageCount]) = Len(history)
    /\ \A p \in 1..Len(patterns) : patterns[p].usageCount = Records(patterns[p].name)

(***************************************************************************)
(* Properties of the process LIT.                                          *)
(***************************************************************************)
\* the content of the process LIT
Process == heap[1].content

\* currentStep is between 0 and the number of steps and completedSteps is
\* equal to it
Bounded(content) ==
    /\ content.currentStep \in 0..content.steps
    /\ content.completedSteps = content.currentStep

\* C29: currentStep of the process LIT stays between 0 and steps.length and
\* completedSteps is equal to it; an execute that finds currentStep = k - 1
\* below steps.length, the k-th since a reset, returns step k with status
\* 'executing' and advances both counters by one; an execute that finds all
\* steps done returns status 'completed' and leaves the content as it is;
\* reset sets both counters to 0
C29_BoundedStepMachine ==
    [][/\ Bounded(Process) /\ Bounded(Process')
       /\ last'.name = "execute" =>
             IF Process.currentStep < Process.steps
             THEN /\ last'.result = [status |-> "executing", step |-> Process.currentStep + 1]
                  /\ Process'.currentStep = Process.currentStep + 1
                  /\ Process'.steps = Process.steps
             ELSE /\ last'.result.status = "completed"
                  /\ Process' = Process
       /\ last'.name = "reset" =>
             /\ last'.result.status = "reset"
             /\ Process'.currentStep = 0 /\ Process'.completedSteps = 0
             /\ Process'.steps = Process.steps]_vars

\* the process LIT has been called more often than it has steps, all its
\* steps are done and the last execute has returned 'completed'
C29_Witness ==
    /\ last.name = "execute" /\ last.result.status = "completed"
    /\ Process.steps >= 1
    /\ Process.currentStep = Process.steps
    /\ calls > Process.steps + 2

====
